---- MODULE Spec2Model ----
(***************************************************************************)
(* Model of iroha_network (src/iroha_network/src/lib.rs): the Request wire *)
(* codec, the client/server exchange of Network, and the peer discovery    *)
(* protocol of tests::Peer.                                                *)
(*                                                                         *)
(* Three specifications share this module:                                 *)
(*   CodecSpec - Request -> Vec<u8> -> Request, inputs drawn from bounded  *)
(*               sets of byte sequences;                                   *)
(*   NetSpec   - clients calling send_request against one server running   *)
(*               Network::listen / listen_async with handle_message;       *)
(*   PeerSpec  - tests::Peer nodes joining each other.                     *)
(***************************************************************************)
EXTENDS Integers, Sequences, FiniteSets

(***************************************************************************)
(* Bytes.  A byte is a number 0..255; the model draws them from a small    *)
(* alphabet that contains the two delimiter bytes, two ASCII letters and   *)
(* 0xFF, a byte that never occurs in valid UTF-8.                          *)
(***************************************************************************)
LF == 10
CR == 13
ByteP == 112
ByteE == 101
ByteBad == 255

MaxPathLen == 2
MaxPayloadLen == 2
MaxRawLen == 3

Bytes == {LF, CR, ByteP, ByteBad}
TextBytes == {LF, CR, ByteP}

SeqsUpTo(S, n) == UNION {[1..k -> S] : k \in 0..n}

\* String::from_utf8 restricted to the alphabet: ASCII bytes are valid, 0xFF
\* is invalid wherever it stands.
IsUtf8(bs) == \A i \in 1..Len(bs) : bs[i] < 128

Contains(bs, b) == \E i \in 1..Len(bs) : bs[i] = b

\* Request { uri_path, payload }
Request(path, payload) == [uri_path |-> path, payload |-> payload]

Requests == {Request(p, q) : p \in SeqsUpTo(TextBytes, MaxPathLen),
                               q \in SeqsUpTo(Bytes, MaxPayloadLen)}
RawFrames == SeqsUpTo(Bytes, MaxRawLen)

\* an encoder that ends the path with a bare '\n'
EncodeBareLF(request) == request.uri_path \o <<LF>> \o request.payload

\* impl From<Request> for Vec<u8>
Encode(request) == request.uri_path \o <<CR, LF>> \o request.payload

\* slice::split(|byte| *byte == b'\n'): the maximal runs between separator
\* bytes, separators excluded; an empty slice yields one empty run.
Split(bs) ==
    LET seps == {i \in 1..Len(bs) : bs[i] = LF}
        k == Cardinality(seps)
        \* position of the j-th separator; 0 and Len(bs) + 1 bound the slice
        Sep(j) == IF j = 0 THEN 0
                  ELSE IF j = k + 1 THEN Len(bs) + 1
                  ELSE CHOOSE i \in seps : Cardinality({x \in seps : x <= i}) = j
    IN  [j \in 1..(k + 1) |-> SubSeq(bs, Sep(j - 1) + 1, Sep(j) - 1)]

\* Iterator::flatten().cloned().collect() over the remaining runs
RECURSIVE Flatten(_)
Flatten(runs) == IF runs = <<>> THEN <<>> ELSE Head(runs) \o Flatten(Tail(runs))

\* Outcomes of Request::try_from
DecOk(r) == [tag |-> "Ok", request |-> r]
DecErr(e) == [tag |-> "Err", error |-> e]
DecPanic == [tag |-> "Panic"]

\* impl TryFrom<Vec<u8>> for Request.  url.len() - 1 on an empty url
\* underflows: a panic in a checked build, and in an unchecked build the
\* wrapped index is out of range for the slice, which panics too.
TryFrom(bytes) ==
    LET split_iter == Split(bytes)
        url == Head(split_iter)
        payload == Flatten(Tail(split_iter))
    IN  IF Len(url) = 0 THEN DecPanic
        ELSE LET path == SubSeq(url, 1, Len(url) - 1)
             IN  IF IsUtf8(path) THEN DecOk(Request(path, payload))
                 ELSE DecErr("FromUtf8Error")

NoRequest == [none |-> TRUE]
NoResult == [tag |-> "None"]
\* nothing read, called or written on a connection yet
NoCount == [reads |-> 0, calls |-> 0, writes |-> 0]

NoBytes == [has |-> FALSE, bytes |-> <<>>]
SomeBytes(bs) == [has |-> TRUE, bytes |-> bs]

Min(a, b) == IF a < b THEN a ELSE b

\* buffer[..read_size]: a single read returns at most BUFFER_SIZE bytes
BUFFER_SIZE == 2048
Take(bs, n) == SubSeq(bs, 1, Min(Len(bs), n))

(***************************************************************************)
(* The application callback handed to handle_message.  It is supplied by   *)
(* the caller; the model uses one that answers "/ping"-like path <<p>>     *)
(* with a fixed body, echoes the payload on path <<e>> and returns an      *)
(* error on every other path.                                              *)
(***************************************************************************)
ByteX == 120
PingPath == <<ByteP>>
EchoPath == <<ByteE>>
Pong == <<ByteP, ByteE>>

HOk(bs) == [tag |-> "Ok", bytes |-> bs]
HErr == [tag |-> "Err"]

AppHandler(request) ==
    IF request.uri_path = PingPath THEN HOk(Pong)
    ELSE IF request.uri_path = EchoPath THEN HOk(request.payload)
    ELSE HErr

NumClients == 2
Clients == 1..NumClients

\* a payload that alone fills the receive buffer, so that its frame is longer
LongPayload == [i \in 1..BUFFER_SIZE |-> ByteX]

NetRequests == {Request(PingPath, <<>>), Request(EchoPath, <<ByteP>>),
                Request(EchoPath, <<ByteX>>), Request(<<ByteX>>, <<>>),
                Request(EchoPath, <<>>)}
NetRawFrames == {<<>>, <<ByteBad, CR, LF>>}
NetSends == {[kind |-> "api", request |-> r] : r \in NetRequests}
                \cup {[kind |-> "raw", bytes |-> bs] : bs \in NetRawFrames}
\* the same sends and one whose frame does not fit the receive buffer
BigSends == NetSends \cup {[kind |-> "api", request |-> Request(EchoPath, LongPayload)]}
ServerModes == {"inline", "threaded", "async"}

VARIABLES
    cpc,        \* codec run: "start", "built", "encoded", "raw", "decoded"
    creq,       \* the Request handed to the encoder, or NoRequest
    cwire,      \* the bytes on the wire
    cdec        \* the outcome of decoding cwire, or NoResult

VARIABLES
    srvMode,    \* how the listen closure runs handle_message: "inline"
                \* (tests::single_threaded), "threaded" (tests::multi_threaded),
                \* "async" (listen_async + handle_message_async), "off"
    listenSt,   \* the listen loop: "listening", "returned_err", "panicked", "off"
    current,    \* connection the loop is handling itself, 0 when accepting
    backlog,    \* connections established but not yet taken by the loop
    clSend,     \* per client: what it sends (a Request, or raw bytes)
    clPc,       \* per client: "idle", "connected", "written", "done"
    clResult,   \* per client: the Result of the send call
    connIn,     \* per connection: bytes written by the client, or NoBytes
    connOut,    \* per connection: bytes written by the server, or NoBytes
    connReset,  \* per connection: dropped with the listener before accept
    hPc,        \* per connection: position of handle_message: "none",
                \* "accepted", "read", "handled", "done", "failed", "panicked"
    hBuf,       \* per connection: buffer[..read_size]
    hResp,      \* per connection: what the application callback returned
    hCount      \* per connection: how often the helper has read from the
                \* stream, called the callback and written to the stream

(***************************************************************************)
(* tests::Peer.  A node is identified with its SocketAddr.  Node Bootstrap *)
(* is started with Peer::start, every other node with start_and_connect;   *)
(* the nodes are numbered in the order in which they are started.          *)
(***************************************************************************)
NumNodes == 4
Nodes == 1..NumNodes
Bootstrap == 1

AddMe == "/add_me"
AddPeer == "/add_peer"
NumberOfPeers == "/number_of_peers"

\* a request waiting on a node's listener: the route, the address in the
\* payload (0: none) and the node whose handler blocks on the response (0: the
\* response is read by a thread nobody waits for)
Msg(route, addr, from) == [route |-> route, addr |-> addr, from |-> from]

NoHandler == [active |-> FALSE, addr |-> 0, todo |-> {}, waiting |-> 0]
\* the client of tests::peer_to_peer that asks for "/number_of_peers": idle
\* (node 0), waiting for node's response, or holding the response
\* nothing cloned, sent or spawned for a joiner yet
NoJoinLog == [snap |-> {}, sent |-> [p \in Nodes |-> 0], sched |-> [p \in Nodes |-> 0]]

NoReply == [has |-> FALSE, node |-> 0, value |-> 0, population |-> 0, clean |-> FALSE]
Asked(n) == [has |-> FALSE, node |-> n, value |-> 0, population |-> 0, clean |-> FALSE]

VARIABLES
    nstate,      \* per node: "off", "joining" (start_and_connect waits for the
                 \* response), "joined" (response read, listener not bound
                 \* yet), "listening", "failed" (start_and_connect returned Err)
    peers,       \* per node: self.peers
    inbox,       \* per node: connections queued on its listener, in order
    handler,     \* per node: the "/add_me" call in progress: the joiner's
                 \* address, the snapshot peers not notified yet, and the peer
                 \* whose response it is blocked on (0: none)
    delayed,     \* spawned threads still asleep: [to, peer]
    target,      \* per node: the peer given to start_and_connect (0: none)
    joinResp,    \* per node: how the handling of its "/add_me" ended:
                 \* "none", "ok" (Ok(vec![])), "err"
    syncFail,    \* per node: an "/add_peer" sent for its join was refused
    delayedFail, \* per node: a delayed "/add_peer" sent to it was refused
    seqOK,       \* every join so far went to Bootstrap and began when the
                 \* previous one and its notifications had completed
    reply        \* the "/number_of_peers" client: NoReply, Asked(n), or the
                 \* response with the number of listening nodes and whether
                 \* discovery was sequential, loss-free and complete when
                 \* the node produced it
VARIABLE
    joinLog      \* per joiner, what its "/add_me" handler has done so far:
                 \* the registry it cloned, how often it has sent
                 \* "/add_peer" to each peer and how many delayed threads
                 \* it has spawned for each peer

\* ---- a single Peer's registry and the requests its handler is given ----
VARIABLES
    rInit,      \* the registry before the first request
    rPrev,      \* the registry before the last request
    rPeers,     \* Peer.peers
    rLog,       \* the requests handled so far, oldest first
    rOut,       \* what Peer::handle_message returned for the last request
    rpc         \* "serving", or "panicked" once the handler has panicked

regVars == <<rInit, rPrev, rPeers, rLog, rOut, rpc>>

codecVars == <<cpc, creq, cwire, cdec>>
peerVars == <<nstate, peers, inbox, handler, delayed, target, joinResp,
              syncFail, delayedFail, seqOK, reply, joinLog>>
netVars == <<srvMode, listenSt, current, backlog, clSend, clPc, clResult,
             connIn, connOut, connReset, hPc, hBuf, hResp, hCount>>

vars == <<codecVars, netVars, peerVars, regVars>>

CodecIdle == cpc = "start" /\ creq = NoRequest /\ cwire = <<>> /\ cdec = NoResult

NetIdle ==
    /\ srvMode = "off"
    /\ listenSt = "off"
    /\ current = 0
    /\ backlog = <<>>
    /\ clSend = [c \in Clients |-> [kind |-> "raw", bytes |-> <<>>]]
    /\ clPc = [c \in Clients |-> "done"]
    /\ clResult = [c \in Clients |-> NoResult]
    /\ connIn = [c \in Clients |-> NoBytes]
    /\ connOut = [c \in Clients |-> NoBytes]
    /\ connReset = [c \in Clients |-> FALSE]
    /\ hPc = [c \in Clients |-> "none"]
    /\ hBuf = [c \in Clients |-> <<>>]
    /\ hResp = [c \in Clients |-> NoResult]
    /\ hCount = [c \in Clients |-> NoCount]

RegIdle ==
    /\ rInit = {} /\ rPrev = {} /\ rPeers = {}
    /\ rLog = <<>> /\ rOut = NoResult /\ rpc = "serving"

PeerIdle ==
    /\ nstate = [n \in Nodes |-> "off"]
    /\ peers = [n \in Nodes |-> {}]
    /\ inbox = [n \in Nodes |-> <<>>]
    /\ handler = [n \in Nodes |-> NoHandler]
    /\ delayed = {}
    /\ target = [n \in Nodes |-> 0]
    /\ joinResp = [n \in Nodes |-> "none"]
    /\ syncFail = [n \in Nodes |-> FALSE]
    /\ delayedFail = [n \in Nodes |-> FALSE]
    /\ seqOK = TRUE
    /\ reply = NoReply
    /\ joinLog = [n \in Nodes |-> NoJoinLog]

(***************************************************************************)
(* CodecSpec                                                               *)
(***************************************************************************)
InitCodec == CodecIdle /\ NetIdle /\ PeerIdle /\ RegIdle

\* Request::new
BuildRequest ==
    /\ cpc = "start"
    /\ \E r \in Requests : creq' = r
    /\ cpc' = "built"
    /\ UNCHANGED <<cwire, cdec, netVars, peerVars, regVars>>

\* let bytes: Vec<u8> = request.into()
EncodeStep ==
    /\ cpc = "built"
    /\ cwire' = Encode(creq)
    /\ cpc' = "encoded"
    /\ UNCHANGED <<creq, cdec, netVars, peerVars, regVars>>

\* bytes read from a stream whose other end is not send_over_stream
ReceiveRaw ==
    /\ cpc = "start"
    /\ \E bs \in RawFrames : cwire' = bs
    /\ cpc' = "raw"
    /\ UNCHANGED <<creq, cdec, netVars, peerVars, regVars>>

\* Request::try_from(bytes)
DecodeStep ==
    /\ cpc \in {"encoded", "raw"}
    /\ cdec' = TryFrom(cwire)
    /\ cpc' = "decoded"
    /\ UNCHANGED <<creq, cwire, netVars, peerVars, regVars>>

NextCodec == BuildRequest \/ EncodeStep \/ ReceiveRaw \/ DecodeStep

CodecSpec == InitCodec /\ [][NextCodec]_vars

(***************************************************************************)
(* NetSpec: NumClients clients, one server.                                *)
(***************************************************************************)
InitNetWith(sends) ==
    /\ CodecIdle
    /\ PeerIdle
    /\ RegIdle
    /\ srvMode \in ServerModes
    /\ listenSt = "listening"
    /\ current = 0
    /\ backlog = <<>>
    /\ clSend \in [Clients -> sends]
    /\ clPc = [c \in Clients |-> "idle"]
    /\ clResult = [c \in Clients |-> NoResult]
    /\ connIn = [c \in Clients |-> NoBytes]
    /\ connOut = [c \in Clients |-> NoBytes]
    /\ connReset = [c \in Clients |-> FALSE]
    /\ hPc = [c \in Clients |-> "none"]
    /\ hBuf = [c \in Clients |-> <<>>]
    /\ hResp = [c \in Clients |-> NoResult]
    /\ hCount = [c \in Clients |-> NoCount]

InitNet == InitNetWith(NetSends)

\* the clients may also send the frame that is longer than BUFFER_SIZE
InitNetBig == InitNetWith(BigSends)

InSeq(q, x) == \E i \in 1..Len(q) : q[i] = x

\* TcpStream::connect in send_request / send_request_to: refused once the
\* listener is gone, otherwise the connection waits in the accept queue.
ClientConnect(c) ==
    /\ clPc[c] = "idle"
    /\ IF listenSt = "listening"
       THEN /\ backlog' = Append(backlog, c)
            /\ clPc' = [clPc EXCEPT ![c] = "connected"]
            /\ UNCHANGED clResult
       ELSE /\ clResult' = [clResult EXCEPT ![c] = [tag |-> "Err"]]
            /\ clPc' = [clPc EXCEPT ![c] = "done"]
            /\ UNCHANGED backlog
    /\ UNCHANGED <<codecVars, regVars, peerVars, srvMode, listenSt, current, clSend, connIn,
                   connOut, connReset, hPc, hBuf, hResp, hCount>>

\* the bytes a client puts on its stream: send_over_stream encodes its Request
Frame(c) ==
    IF clSend[c].kind = "api" THEN Encode(clSend[c].request) ELSE clSend[c].bytes

\* send_over_stream: stream.write_all(&payload)?; stream.flush()?
ClientWrite(c) ==
    /\ clPc[c] = "connected"
    /\ IF connReset[c]
       THEN /\ clResult' = [clResult EXCEPT ![c] = [tag |-> "Err"]]
            /\ clPc' = [clPc EXCEPT ![c] = "done"]
            /\ UNCHANGED connIn
       ELSE /\ connIn' = [connIn EXCEPT ![c] = SomeBytes(Frame(c))]
            /\ clPc' = [clPc EXCEPT ![c] = "written"]
            /\ UNCHANGED clResult
    /\ UNCHANGED <<codecVars, regVars, peerVars, srvMode, listenSt, current, backlog, clSend,
                   connOut, connReset, hPc, hBuf, hResp, hCount>>

\* send_over_stream: let read_size = stream.read(&mut buffer)?;
\* Ok(buffer[..read_size].to_vec()).  The read returns what the server wrote,
\* 0 bytes when the server dropped the stream without writing, and an error
\* when the connection was reset.
ClientRead(c) ==
    /\ clPc[c] = "written"
    /\ \/ connReset[c]
       \/ connOut[c].has
       \/ hPc[c] \in {"failed", "panicked"}
    /\ clResult' = [clResult EXCEPT ![c] =
            IF connReset[c] THEN [tag |-> "Err"]
            ELSE IF connOut[c].has THEN HOk(Take(connOut[c].bytes, BUFFER_SIZE))
            ELSE HOk(<<>>)]
    /\ clPc' = [clPc EXCEPT ![c] = "done"]
    /\ UNCHANGED <<codecVars, regVars, peerVars, srvMode, listenSt, current, backlog, clSend,
                   connIn, connOut, connReset, hPc, hBuf, hResp, hCount>>

\* a loop that takes one connection only (if let in place of while let)
ServerAcceptOnce ==
    /\ listenSt = "listening"
    /\ backlog # <<>>
    /\ current = 0
    /\ \A d \in Clients : hPc[d] = "none"
    /\ LET c == Head(backlog)
       IN  /\ hPc' = [hPc EXCEPT ![c] = "accepted"]
           /\ current' = IF srvMode = "threaded" THEN 0 ELSE c
    /\ backlog' = Tail(backlog)
    /\ UNCHANGED <<codecVars, regVars, peerVars, srvMode, listenSt, clSend, clPc, clResult,
                   connIn, connOut, connReset, hBuf, hResp, hCount>>

\* Network::listen / listen_async: while let Some(stream) = incoming.next().
\* The closure of tests::multi_threaded moves the stream to a new thread and
\* returns Ok(()); the other closures run the helper before the next accept.
ServerAccept ==
    /\ listenSt = "listening"
    /\ backlog # <<>>
    /\ current = 0
    /\ LET c == Head(backlog)
       IN  /\ hPc' = [hPc EXCEPT ![c] = "accepted"]
           /\ current' = IF srvMode = "threaded" THEN 0 ELSE c
    /\ backlog' = Tail(backlog)
    /\ UNCHANGED <<codecVars, regVars, peerVars, srvMode, listenSt, clSend, clPc, clResult,
                   connIn, connOut, connReset, hBuf, hResp, hCount>>
\* a helper that reads until it has the whole frame
ServerReadAll(c) ==
    /\ hPc[c] = "accepted"
    /\ connIn[c].has
    /\ hBuf' = [hBuf EXCEPT ![c] = connIn[c].bytes]
    /\ hPc' = [hPc EXCEPT ![c] = "read"]
    /\ hCount' = [hCount EXCEPT ![c].reads = @ + 1]
    /\ UNCHANGED <<codecVars, regVars, peerVars, srvMode, listenSt, current, backlog, clSend,
                   clPc, clResult, connIn, connOut, connReset, hResp>>

\* handle_message / handle_message_async: stream.read(&mut buffer), a blocking
\* (or suspending) read that returns once the client has written or closed.
ServerRead(c) ==
    /\ hPc[c] = "accepted"
    /\ connIn[c].has
    /\ hBuf' = [hBuf EXCEPT ![c] = Take(connIn[c].bytes, BUFFER_SIZE)]
    /\ hPc' = [hPc EXCEPT ![c] = "read"]
    /\ hCount' = [hCount EXCEPT ![c].reads = @ + 1]
    /\ UNCHANGED <<codecVars, regVars, peerVars, srvMode, listenSt, current, backlog, clSend,
                   clPc, clResult, connIn, connOut, connReset, hResp>>

\* what handle_message does with the bytes read: try_into()?, handler(..)?
HandleOutcome(buf) ==
    LET d == TryFrom(buf)
    IN  IF d.tag = "Panic" THEN [pc |-> "panicked", resp |-> NoResult, calls |-> 0]
        ELSE IF d.tag = "Err" THEN [pc |-> "failed", resp |-> NoResult, calls |-> 0]
        ELSE LET r == AppHandler(d.request)
             IN  IF r.tag = "Err" THEN [pc |-> "failed", resp |-> r, calls |-> 1]
                 ELSE [pc |-> "handled", resp |-> r, calls |-> 1]

\* listen: handler(Box::new(stream?))?  -  an Err from the closure returns
\* from listen and a panic unwinds the listening thread; either way the
\* listener is dropped and the connections still queued on it are reset.
\* Only the closure that hands the stream to a thread of its own discards
\* the helper's result.
LoopAfter(pc) ==
    IF srvMode = "threaded" \/ pc \notin {"failed", "panicked"}
    THEN UNCHANGED <<listenSt, backlog, connReset>>
    ELSE /\ listenSt' = IF pc = "failed" THEN "returned_err" ELSE "panicked"
         /\ backlog' = <<>>
         /\ connReset' = [d \in Clients |-> connReset[d] \/ InSeq(backlog, d)]

ServerHandle(c) ==
    /\ hPc[c] = "read"
    /\ LET o == HandleOutcome(hBuf[c])
       IN  /\ hPc' = [hPc EXCEPT ![c] = o.pc]
           /\ hResp' = [hResp EXCEPT ![c] = o.resp]
           /\ hCount' = [hCount EXCEPT ![c].calls = @ + o.calls]
           /\ LoopAfter(o.pc)
           /\ current' = IF o.pc = "handled" THEN current ELSE 0
    /\ UNCHANGED <<codecVars, regVars, peerVars, srvMode, clSend, clPc, clResult, connIn,
                   connOut, hBuf>>

\* a helper that keeps the connection and goes back to reading after its write
ServerWriteKeepAlive(c) ==
    /\ hPc[c] = "handled"
    /\ connOut' = [connOut EXCEPT ![c] = SomeBytes(hResp[c].bytes)]
    /\ hPc' = [hPc EXCEPT ![c] = "accepted"]
    /\ hCount' = [hCount EXCEPT ![c].writes = @ + 1]
    /\ UNCHANGED <<codecVars, regVars, peerVars, srvMode, listenSt, current, backlog, clSend,
                   clPc, clResult, connIn, connReset, hBuf, hResp>>

\* a helper that writes the response to a stream other than its own
ServerWriteCrossed(c) ==
    /\ hPc[c] = "handled"
    /\ \E d \in Clients :
          /\ ~connOut[d].has
          /\ connOut' = [connOut EXCEPT ![d] = SomeBytes(hResp[c].bytes)]
    /\ hPc' = [hPc EXCEPT ![c] = "done"]
    /\ hCount' = [hCount EXCEPT ![c].writes = @ + 1]
    /\ current' = IF current = c THEN 0 ELSE current
    /\ UNCHANGED <<codecVars, regVars, peerVars, srvMode, listenSt, backlog, clSend, clPc,
                   clResult, connIn, connReset, hBuf, hResp>>

\* stream.write_all(&response)?; stream.flush()?; Ok(())
ServerWrite(c) ==
    /\ hPc[c] = "handled"
    /\ connOut' = [connOut EXCEPT ![c] = SomeBytes(hResp[c].bytes)]
    /\ hPc' = [hPc EXCEPT ![c] = "done"]
    /\ hCount' = [hCount EXCEPT ![c].writes = @ + 1]
    /\ current' = IF current = c THEN 0 ELSE current
    /\ UNCHANGED <<codecVars, regVars, peerVars, srvMode, listenSt, backlog, clSend, clPc,
                   clResult, connIn, connReset, hBuf, hResp>>

NextNet ==
    \/ \E c \in Clients : ClientConnect(c)
    \/ \E c \in Clients : ClientWrite(c)
    \/ \E c \in Clients : ClientRead(c)
    \/ ServerAccept
    \/ \E c \in Clients : ServerRead(c)
    \/ \E c \in Clients : ServerHandle(c)
    \/ \E c \in Clients : ServerWrite(c)

NetSpec == InitNet /\ [][NextNet]_vars

NetBigSpec == InitNetBig /\ [][NextNet]_vars

\* every thread and task of the server and of the clients keeps running
NetFairSpec == NetSpec /\ WF_vars(NextNet)


(***************************************************************************)
(* PeerSpec: tests::Peer nodes, each running Network::listen with          *)
(* handle_message inline (Peer::start), so a node serves one connection at *)
(* a time and accepts nothing while its handler is blocked.                *)
(***************************************************************************)
InitPeer == CodecIdle /\ NetIdle /\ PeerIdle /\ RegIdle

Up == {n \in Nodes : nstate[n] = "listening"}

IsQuery(m) == m.route = NumberOfPeers

\* nothing of the discovery protocol is in progress: no start_and_connect is
\* between its request and its listener, no handler runs, no notification
\* is queued or asleep
Quiescent ==
    /\ \A n \in Nodes : nstate[n] \in {"off", "listening", "failed"}
    /\ \A n \in Nodes : ~handler[n].active
    /\ \A n \in Nodes : \A i \in 1..Len(inbox[n]) : IsQuery(inbox[n][i])
    /\ delayed = {}

NoLoss ==
    /\ \A n \in Nodes : nstate[n] # "failed"
    /\ \A n \in Nodes : ~syncFail[n] /\ ~delayedFail[n]

\* Peer::new().start(port)
Start(n) ==
    /\ n = Bootstrap
    /\ nstate[n] = "off"
    /\ nstate' = [nstate EXCEPT ![n] = "listening"]
    /\ UNCHANGED <<codecVars, regVars, netVars, joinLog, peers, inbox, handler, delayed, target,
                   joinResp, syncFail, delayedFail, seqOK, reply>>

\* Peer::start_and_connect(port, peer): insert the peer, send "/add_me" with
\* the own address; a refused connection returns the error through `?`
StartAndConnect(x, t) ==
    /\ x # Bootstrap
    /\ nstate[x] = "off"
    /\ \A y \in Nodes : y < x => nstate[y] # "off"
    /\ peers' = [peers EXCEPT ![x] = @ \cup {t}]
    /\ target' = [target EXCEPT ![x] = t]
    /\ IF nstate[t] = "listening"
       THEN /\ inbox' = [inbox EXCEPT ![t] = Append(@, Msg(AddMe, x, x))]
            /\ nstate' = [nstate EXCEPT ![x] = "joining"]
       ELSE /\ nstate' = [nstate EXCEPT ![x] = "failed"]
            /\ UNCHANGED inbox
    /\ seqOK' = (seqOK /\ Quiescent /\ t = Bootstrap)
    /\ UNCHANGED <<codecVars, regVars, netVars, joinLog, handler, delayed, joinResp, syncFail,
                   delayedFail, reply>>

\* self.start(port) after the "/add_me" response was read: the listener binds
JoinerListen(x) ==
    /\ nstate[x] = "joined"
    /\ nstate' = [nstate EXCEPT ![x] = "listening"]
    /\ UNCHANGED <<codecVars, regVars, netVars, joinLog, peers, inbox, handler, delayed, target,
                   joinResp, syncFail, delayedFail, seqOK, reply>>

\* a client asks a node for "/number_of_peers" (tests::peer_to_peer)
QuerySend(n) ==
    /\ reply = NoReply
    /\ nstate[n] = "listening"
    /\ inbox' = [inbox EXCEPT ![n] = Append(@, Msg(NumberOfPeers, 0, 0))]
    /\ reply' = Asked(n)
    /\ UNCHANGED <<codecVars, regVars, netVars, joinLog, nstate, peers, handler, delayed, target,
                   joinResp, syncFail, delayedFail, seqOK>>

\* the client has compared the response (assert_eq!) and is done with it
QueryDone ==
    /\ reply.has
    /\ reply' = NoReply
    /\ UNCHANGED <<codecVars, regVars, netVars, joinLog, nstate, peers, inbox, handler, delayed,
                   target, joinResp, syncFail, delayedFail, seqOK>>

CanServe(n) ==
    /\ nstate[n] = "listening"
    /\ ~handler[n].active
    /\ inbox[n] # <<>>

\* usize as u8: the low eight bits
AsU8(len) == len % 256

\* vec![self.peers.len() as u8]

CountPeers(n) == AsU8(Cardinality(peers[n]))

\* "/number_of_peers" => Ok(vec![self.peers.len() as u8])
ServeCount(n) ==
    /\ CanServe(n)
    /\ Head(inbox[n]).route = NumberOfPeers
    /\ inbox' = [inbox EXCEPT ![n] = Tail(@)]
    /\ reply' = [has |-> TRUE, node |-> n, value |-> CountPeers(n),
                 population |-> Cardinality(Up),
                 clean |-> seqOK /\ NoLoss /\ Quiescent]
    /\ UNCHANGED <<codecVars, regVars, netVars, joinLog, nstate, peers, handler, delayed, target,
                   joinResp, syncFail, delayedFail, seqOK>>

\* the thread spawned in the "/add_me" loop for snapshot peer p: after the
\* sleep it sends "/add_peer" with p to the joiner
ScheduledNone(h, p) == {}

\* a thread that sends the joiner its own address in place of the peer's
ScheduledSelf(h, p) == {[to |-> h.addr, peer |-> h.addr]}

Scheduled(h, p) == {[to |-> h.addr, peer |-> p]}

\* joinLog with one more "/add_peer" sent to p by handler h
LogSend(log, h, p) == [log EXCEPT ![h.addr].sent[p] = @ + 1]

\* joinLog with the threads handler h spawns for snapshot peer p
LogSpawn(h, p) ==
    [joinLog EXCEPT ![h.addr].sched[p] = @ + Cardinality(Scheduled(h, p))]

\* the "/add_me" loop after the send to snapshot peer p returned: the Result
\* of send_request_to is dropped, so the loop goes on whatever it was
AfterNotify(h, p, ok) == [h EXCEPT !.todo = @ \ {p}, !.waiting = 0]

\* "/add_peer" => self.peers.insert(address, ()); Ok(vec![]).  The response
\* unblocks the "/add_me" handler that sent the request, which then spawns
\* the delayed thread for this peer.
ServeAddPeer(n) ==
    /\ CanServe(n)
    /\ Head(inbox[n]).route = AddPeer
    /\ LET m == Head(inbox[n])
       IN  /\ peers' = [peers EXCEPT ![n] = @ \cup {m.addr}]
           /\ IF m.from # 0
              THEN /\ handler' = [handler EXCEPT
                          ![m.from] = AfterNotify(@, n, TRUE)]
                   /\ delayed' = delayed \cup Scheduled(handler[m.from], n)
                   /\ joinLog' = LogSpawn(handler[m.from], n)
              ELSE UNCHANGED <<handler, delayed, joinLog>>
    /\ inbox' = [inbox EXCEPT ![n] = Tail(@)]
    /\ UNCHANGED <<codecVars, regVars, netVars, nstate, target, joinResp, syncFail,
                   delayedFail, seqOK, reply>>

\* "/add_me": parse the address, self.peers.clone()
ServeAddMe(n) ==
    /\ CanServe(n)
    /\ Head(inbox[n]).route = AddMe
    /\ handler' = [handler EXCEPT ![n] =
            [active |-> TRUE, addr |-> Head(inbox[n]).addr,
             todo |-> peers[n], waiting |-> 0]]
    /\ joinLog' = [joinLog EXCEPT ![Head(inbox[n]).addr].snap = peers[n]]
    /\ inbox' = [inbox EXCEPT ![n] = Tail(@)]
    /\ UNCHANGED <<codecVars, regVars, netVars, nstate, peers, delayed, target,
                   joinResp, syncFail, delayedFail, seqOK, reply>>

\* for (peer, _) in self.peers.clone(): Network::send_request_to(peer,
\* "/add_peer" with the joiner's address).  The connection is refused when
\* the peer has no listener; otherwise the handler blocks in the read of
\* send_over_stream until the peer has served the request.
JoinNotify(n) ==
    /\ handler[n].active
    /\ handler[n].waiting = 0
    /\ \E p \in handler[n].todo :
          IF nstate[p] = "listening"
          THEN /\ inbox' = [inbox EXCEPT
                      ![p] = Append(@, Msg(AddPeer, handler[n].addr, n))]
               /\ handler' = [handler EXCEPT ![n].waiting = p]
               /\ joinLog' = LogSend(joinLog, handler[n], p)
               /\ UNCHANGED <<delayed, syncFail>>
          ELSE /\ handler' = [handler EXCEPT ![n] = AfterNotify(@, p, FALSE)]
               /\ delayed' = delayed \cup Scheduled(handler[n], p)
               /\ joinLog' = LogSend(LogSpawn(handler[n], p), handler[n], p)
               /\ syncFail' = [syncFail EXCEPT ![handler[n].addr] = TRUE]
               /\ UNCHANGED inbox
    /\ UNCHANGED <<codecVars, regVars, netVars, nstate, peers, target, joinResp,
                   delayedFail, seqOK, reply>>

\* a handler that leaves its loop after the first snapshot peer
JoinFinishEarly(n) ==
    /\ handler[n].active
    /\ handler[n].waiting = 0
    /\ handler[n].todo = {} \/ joinLog[handler[n].addr].snap # handler[n].todo
    /\ LET x == handler[n].addr
       IN  /\ peers' = [peers EXCEPT ![n] = @ \cup {x}]
           /\ joinResp' = [joinResp EXCEPT ![x] = "ok"]
           /\ nstate' = IF nstate[x] = "joining"
                        THEN [nstate EXCEPT ![x] = "joined"] ELSE nstate
    /\ handler' = [handler EXCEPT ![n] = NoHandler]
    /\ UNCHANGED <<codecVars, regVars, netVars, joinLog, inbox, delayed, target, syncFail,
                   delayedFail, seqOK, reply>>

\* a handler that gives up the join when a notification failed
JoinFinishStrict(n) ==
    /\ handler[n].active
    /\ handler[n].waiting = 0
    /\ handler[n].todo = {}
    /\ LET x == handler[n].addr
       IN  /\ peers' = IF syncFail[x] THEN peers
                       ELSE [peers EXCEPT ![n] = @ \cup {x}]
           /\ joinResp' = [joinResp EXCEPT
                  ![x] = IF syncFail[x] THEN "err" ELSE "ok"]
           /\ nstate' = IF nstate[x] = "joining"
                        THEN [nstate EXCEPT ![x] = "joined"] ELSE nstate
    /\ handler' = [handler EXCEPT ![n] = NoHandler]
    /\ UNCHANGED <<codecVars, regVars, netVars, joinLog, inbox, delayed, target, syncFail,
                   delayedFail, seqOK, reply>>

\* after the loop: self.peers.insert(address, ()); Ok(vec![]).  The joiner's
\* send_request_to returns and start_and_connect goes on to self.start.
JoinFinish(n) ==
    /\ handler[n].active
    /\ handler[n].waiting = 0
    /\ handler[n].todo = {}
    /\ LET x == handler[n].addr
       IN  /\ peers' = [peers EXCEPT ![n] = @ \cup {x}]
           /\ joinResp' = [joinResp EXCEPT ![x] = "ok"]
           /\ nstate' = IF nstate[x] = "joining"
                        THEN [nstate EXCEPT ![x] = "joined"] ELSE nstate
    /\ handler' = [handler EXCEPT ![n] = NoHandler]
    /\ UNCHANGED <<codecVars, regVars, netVars, joinLog, inbox, delayed, target, syncFail,
                   delayedFail, seqOK, reply>>

\* the spawned thread wakes up: send_request_to(address, "/add_peer" with the
\* snapshot peer); refused when the joiner has no listener yet
DelayedFire(d) ==
    /\ d \in delayed
    /\ delayed' = delayed \ {d}
    /\ IF nstate[d.to] = "listening"
       THEN /\ inbox' = [inbox EXCEPT ![d.to] = Append(@, Msg(AddPeer, d.peer, 0))]
            /\ UNCHANGED delayedFail
       ELSE /\ delayedFail' = [delayedFail EXCEPT ![d.to] = TRUE]
            /\ UNCHANGED inbox
    /\ UNCHANGED <<codecVars, regVars, netVars, joinLog, nstate, peers, handler, target,
                   joinResp, syncFail, seqOK, reply>>

NextPeer ==
    \/ \E n \in Nodes : Start(n)
    \/ \E x, t \in Nodes : StartAndConnect(x, t)
    \/ \E x \in Nodes : JoinerListen(x)
    \/ \E n \in Nodes : QuerySend(n)
    \/ QueryDone
    \/ \E n \in Nodes : ServeCount(n)
    \/ \E n \in Nodes : ServeAddPeer(n)
    \/ \E n \in Nodes : ServeAddMe(n)
    \/ \E n \in Nodes : JoinNotify(n)
    \/ \E n \in Nodes : JoinFinish(n)
    \/ \E d \in delayed : DelayedFire(d)

PeerSpec == InitPeer /\ [][NextPeer]_vars


(***************************************************************************)
(* RegistrySpec: Peer::handle_message as a function of the registry and    *)
(* the request, applied to a single Peer a few times in a row.  Outbound   *)
(* calls of "/add_me" return (their results are dropped by the handler),   *)
(* so only what the handler does to its own registry and what it returns   *)
(* is kept here; PeerSpec has the traffic between nodes.                   *)
(***************************************************************************)
MaxRegistry == 257
MaxCalls == 2

\* a route the match of Peer::handle_message has no arm for
OtherRoute == "/other"
\* a payload that SocketAddr::from_str does not parse
NoAddr == 0

\* registries of every size up to MaxRegistry
Registries == {1..k : k \in 0..MaxRegistry}
RegAddrs == {NoAddr, 1, MaxRegistry + 1}
RegRequests ==
    {Msg(NumberOfPeers, NoAddr, 0), Msg(OtherRoute, NoAddr, 0)}
        \cup {Msg(r, a, 0) : r \in {AddPeer, AddMe}, a \in RegAddrs}

HPanic == [tag |-> "Panic"]

\* an insert that takes the key out when it is already there
RegInsertToggle(registry, a) ==
    IF a \in registry THEN registry \ {a} ELSE registry \cup {a}

\* CHashMap::insert(address, ()): the key is added, or its value replaced
RegInsert(registry, a) == registry \cup {a}

\* Peer::handle_message: the registry afterwards and the value returned
PeerHandleMessage(registry, m) ==
    IF m.route = NumberOfPeers
    THEN [peers |-> registry, out |-> HOk(<<AsU8(Cardinality(registry))>>)]
    ELSE IF m.route \in {AddPeer, AddMe}
    THEN IF m.addr = NoAddr
         THEN [peers |-> registry, out |-> HPanic]
         ELSE [peers |-> RegInsert(registry, m.addr), out |-> HOk(<<>>)]
    ELSE [peers |-> registry, out |-> HPanic]

InitRegistry ==
    /\ CodecIdle /\ NetIdle /\ PeerIdle
    /\ rInit \in Registries
    /\ rPrev = rInit /\ rPeers = rInit
    /\ rLog = <<>> /\ rOut = NoResult /\ rpc = "serving"

\* Peer::start: the listening thread runs the handler inline, so a panic of
\* the handler unwinds it and nothing is served afterwards
RegServe ==
    /\ rpc = "serving"
    /\ Len(rLog) < MaxCalls
    /\ \E m \in RegRequests :
          LET o == PeerHandleMessage(rPeers, m)
          IN  /\ rLog' = Append(rLog, m)
              /\ rPrev' = rPeers
              /\ rPeers' = o.peers
              /\ rOut' = o.out
              /\ rpc' = IF o.out = HPanic THEN "panicked" ELSE "serving"
    /\ UNCHANGED <<codecVars, netVars, peerVars, rInit>>

NextRegistry == RegServe

RegistrySpec == InitRegistry /\ [][NextRegistry]_vars

\* the last request handled, when there is one
LastReq == rLog[Len(rLog)]

\* ---------------------------------------------------------------------
\* C1: round trip - whenever a Request whose uri_path has no '\n' byte was
\* encoded and the encoding decoded, the decoded Request equals the
\* original, for every payload.
C1_RoundTrip ==
    (cpc = "decoded" /\ creq # NoRequest /\ ~Contains(creq.uri_path, LF))
        => cdec = DecOk(creq)

\* C8: decoding bytes without any '\n' fails with MissingDelimiter.
C8_MissingDelimiter ==
    (cpc = "decoded" /\ ~Contains(cwire, LF))
        => cdec = DecErr("MissingDelimiter")

FirstLF(bs) == CHOOSE i \in 1..Len(bs) : bs[i] = LF /\ \A j \in 1..(i - 1) : bs[j] # LF

\* C9: for bytes with at least one '\n', the decoded uri_path is the bytes
\* before the first '\n' less one trailing byte, and the decoded payload is
\* every byte after the first '\n', later '\n' bytes included.
C9_SplitOnFirstLF ==
    (cpc = "decoded" /\ Contains(cwire, LF))
        => LET i == FirstLF(cwire)
           IN  /\ cdec.tag = "Ok"
               /\ cdec.request.uri_path = SubSeq(cwire, 1, i - 2)
               /\ cdec.request.payload = SubSeq(cwire, i + 1, Len(cwire))

\* ---------------------------------------------------------------------
\* C2: a connection whose handling failed (undecodable request, handler
\* error, panic in the helper) never terminates the listen loop.
C2_ListenLoopSurvives ==
    (\E c \in Clients : hPc[c] \in {"failed", "panicked"})
        => listenSt = "listening"

\* a client that uses send_request with a Request the server decodes and the
\* application callback accepts
WellFormed(c) ==
    /\ clSend[c].kind = "api"
    /\ HandleOutcome(Take(Frame(c), BUFFER_SIZE)).pc = "handled"

Served(c) ==
    LET o == HandleOutcome(Take(Frame(c), BUFFER_SIZE))
    IN  /\ o.pc = "handled"
        /\ clPc[c] = "done"
        /\ clResult[c] = HOk(o.resp.bytes)

\* C6: when every one of the concurrent clients sends a well-formed
\* request, every client eventually receives its response, in each server
\* mode (inline, thread per connection, listen_async).
C6_AllClientsServed ==
    (\A c \in Clients : WellFormed(c)) => <>(\A c \in Clients : Served(c))

C6_Witness ==
    /\ \A c \in Clients : WellFormed(c) /\ Served(c)
    /\ srvMode = "async"

C3_SequentialConvergence ==
    /\ (seqOK /\ NoLoss /\ Quiescent)
          => \A n \in Up : peers[n] = Up \ {n} /\ CountPeers(n) = Cardinality(Up) - 1
    /\ (reply.has /\ reply.clean) => reply.value = reply.population - 1

\* A (bootstrap), B, C: a node answers 2
C3_Witness ==
    /\ seqOK /\ NoLoss /\ Quiescent
    /\ Cardinality(Up) = 3
    /\ reply.has /\ reply.clean /\ reply.value = 2 /\ reply.node = 3

\* nothing is left to happen: every started node listens, no handler runs,
\* nothing is queued or asleep
Settled ==
    /\ \A n \in Nodes : nstate[n] \in {"off", "listening", "failed"}
    /\ \A n \in Nodes : ~handler[n].active /\ inbox[n] = <<>>
    /\ delayed = {}

\* C4: under every interleaving of joins, with every join accepted and no
\* notification lost or refused, once all joins and notifications are over
\* every joined node holds the address of every other joined node.
C4_FullMesh ==
    (Settled /\ NoLoss) => \A n, m \in Up : n # m => m \in peers[n]

Blocked(n) == handler[n].active /\ handler[n].waiting # 0

\* C5: no two nodes are each blocked in an "/add_me" handler on the response
\* of a node that is itself blocked in its handler.
C5_NoBlockedCycle ==
    Cardinality({n \in Nodes : Blocked(n) /\ Blocked(handler[n].waiting)}) < 2

\* C10: a notification that fails while "/add_me" is handled never fails the
\* join: no join ends with an error, and a join whose handling is over ended
\* with the empty Ok response and the joiner in the handler's registry.
C10_JoinSurvivesFailures ==
    \A x \in Nodes :
        /\ joinResp[x] \in {"none", "ok"}
        /\ nstate[x] \in {"joined", "listening"} /\ x # Bootstrap
              => (joinResp[x] = "ok" /\ x \in peers[target[x]])
        /\ (syncFail[x] /\ \A n \in Nodes : handler[n].addr # x)
              => (joinResp[x] = "ok" /\ x \in peers[target[x]])

\* a join during which both the synchronous and the delayed notification
\* were refused
C10_Witness ==
    \E x \in Nodes :
        /\ syncFail[x] /\ delayedFail[x]
        /\ joinResp[x] = "ok" /\ x \in peers[target[x]]

\* ---------------------------------------------------------------------
\* C11: the outbound calls of an "/add_me" handler do not block the response
\* to the joiner: whenever a handler is waiting for a snapshot peer to answer
\* "/add_peer", the joiner already has its response.
C11_ResponseNotBlocked ==
    \A n \in Nodes : Blocked(n) => joinResp[handler[n].addr] = "ok"

\* C18: the encoding of a Request is its uri_path bytes, then 0x0D 0x0A,
\* then its payload bytes, and nothing else; its length is
\* len(uri_path) + 2 + len(payload).
C18_WireFormat ==
    (cpc \in {"encoded", "decoded"} /\ creq # NoRequest)
        => LET k == Len(creq.uri_path)
           IN  /\ Len(cwire) = k + 2 + Len(creq.payload)
               /\ \A i \in 1..k : cwire[i] = creq.uri_path[i]
               /\ cwire[k + 1] = 13
               /\ cwire[k + 2] = 10
               /\ \A i \in 1..Len(creq.payload) : cwire[k + 2 + i] = creq.payload[i]

\* a Request with a path and a payload of the largest size was encoded
C18_Witness ==
    /\ cpc = "encoded" /\ creq # NoRequest
    /\ Len(creq.uri_path) = MaxPathLen /\ Len(creq.payload) = MaxPayloadLen
    /\ Len(cwire) = MaxPathLen + 2 + MaxPayloadLen
\* C12: a frame longer than BUFFER_SIZE is truncated, not rejected: the
\* server reads once, decodes the first BUFFER_SIZE bytes of the frame, calls
\* the callback with the shortened payload, and the exchange does not fail.
C12_Truncation ==
    \A c \in Clients :
        (Len(Frame(c)) > BUFFER_SIZE /\ clSend[c].kind = "api"
                /\ hPc[c] \notin {"none", "accepted"})
            => LET r == clSend[c].request
                   cut == Request(r.uri_path,
                             SubSeq(r.payload, 1, BUFFER_SIZE - Len(r.uri_path) - 2))
               IN  /\ hCount[c].reads = 1
                   /\ Len(hBuf[c]) = BUFFER_SIZE
                   /\ \A i \in 1..BUFFER_SIZE : hBuf[c][i] = Frame(c)[i]
                   /\ hPc[c] \in {"read", "handled", "done"}
                   /\ hPc[c] # "read" => hResp[c] = AppHandler(cut)
                   /\ clPc[c] = "done" => clResult[c] = AppHandler(cut)

\* the oversize echo request was answered with the shortened payload
C12_Witness ==
    \E c \in Clients :
        /\ Len(Frame(c)) = BUFFER_SIZE + 3
        /\ hPc[c] = "done" /\ clPc[c] = "done"
        /\ clResult[c].tag = "Ok" /\ Len(clResult[c].bytes) = BUFFER_SIZE - 3

\* C14: an error returned by the callback reaches the client as an error
\* response that differs from what the client gets for a callback that
\* succeeded with an empty Response.
C14_HandlerErrorDistinct ==
    \A c, d \in Clients :
        (/\ clPc[c] = "done" /\ hCount[c].calls = 1 /\ hResp[c] = HErr
         /\ clPc[d] = "done" /\ hPc[d] = "done" /\ hResp[d] = HOk(<<>>))
            => clResult[c] # clResult[d]

\* C20: one exchange per connection: the helper reads at most once, calls the
\* callback at most once and only when the bytes read decode, writes at most
\* once and only when the callback returned a Response, and never reads again.
C20_OneExchange ==
    \A c \in Clients :
        /\ hCount[c].reads <= 1 /\ hCount[c].calls <= 1 /\ hCount[c].writes <= 1
        /\ hCount[c].calls = 1
              => (hCount[c].reads = 1 /\ TryFrom(hBuf[c]).tag = "Ok")
        /\ hCount[c].writes = 1
              => (hCount[c].calls = 1 /\ hResp[c].tag = "Ok"
                    /\ connOut[c] = SomeBytes(hResp[c].bytes))
        /\ hPc[c] \in {"done", "failed", "panicked"} => hCount[c].reads = 1

\* one connection went through read, callback and write, and another was
\* dropped after its read because its bytes did not decode
C20_Witness ==
    \E c, d \in Clients :
        /\ hPc[c] = "done" /\ hCount[c] = [reads |-> 1, calls |-> 1, writes |-> 1]
        /\ hPc[d] = "failed" /\ hCount[d] = [reads |-> 1, calls |-> 0, writes |-> 0]
\* C15: in the cooperative mode accepting and per-connection work are
\* independent tasks: while the helper of an accepted connection is suspended
\* in its read (the client has connected and not written yet), listen_async
\* can accept a later connection that is waiting.
C15_AcceptWhileSuspended ==
    (/\ srvMode = "async" /\ listenSt = "listening" /\ backlog # <<>>
     /\ \E c \in Clients : hPc[c] = "accepted" /\ ~connIn[c].has)
        => ENABLED ServerAccept
\* C13: a request whose uri_path is not a discovery route goes to the
\* handler supplied from outside and that handler's Response or error comes
\* back; the registry is unchanged and the node keeps serving.
C13_UnknownRouteForwarded ==
    (rLog # <<>> /\ LastReq.route = OtherRoute)
        => /\ rOut.tag \in {"Ok", "Err"}
           /\ rPeers = rPrev
           /\ rpc = "serving"

\* C16: "/number_of_peers" returns exactly one byte and leaves the registry
\* unchanged; the byte is the registry size up to 255 and 255 for every
\* larger registry.
C16_CountCapped ==
    (rLog # <<>> /\ LastReq.route = NumberOfPeers)
        => /\ rOut.tag = "Ok" /\ Len(rOut.bytes) = 1
           /\ rPeers = rPrev
           /\ rOut.bytes[1] = Min(Cardinality(rPrev), 255)

\* the addresses of the "/add_peer" and "/add_me" requests handled so far
Inserted ==
    {rLog[i].addr : i \in {j \in 1..Len(rLog) : rLog[j].route \in {AddPeer, AddMe}}}

\* C17: "/add_peer" is idempotent and keeps addresses unique: with the
\* address present the registry and its count stay as they are, with the
\* address absent exactly that address is added, the response is empty
\* either way, and after any sequence of "/add_peer" and "/add_me" requests
\* the registry holds each address once.
C17_AddPeerIdempotent ==
    /\ (rLog # <<>> /\ LastReq.route = AddPeer /\ LastReq.addr # NoAddr)
          => /\ rOut = HOk(<<>>)
             /\ LastReq.addr \in rPrev
                   => (rPeers = rPrev
                        /\ Cardinality(rPeers) = Cardinality(rPrev))
             /\ LastReq.addr \notin rPrev
                   => (rPrev \subseteq rPeers /\ rPeers \ rPrev = {LastReq.addr}
                        /\ Cardinality(rPeers) = Cardinality(rPrev) + 1)
    /\ rpc = "serving"
          => (rPeers = rInit \cup Inserted
               /\ Cardinality(rPeers) = Cardinality(rInit) + Cardinality(Inserted \ rInit))

\* the same absent address was added twice in a row
C17_Witness ==
    /\ Len(rLog) = 2 /\ rpc = "serving"
    /\ rLog[1].route = AddPeer /\ rLog[2] = rLog[1]
    /\ rLog[1].addr \notin rInit /\ rLog[1].addr \in rPrev
    /\ rPeers = rPrev
\* C19: the "/add_me" handler sends "/add_peer" with the joiner's address
\* once to each peer of the registry it cloned when it began and to no other,
\* spawns one delayed "/add_peer" thread per cloned peer, after the send to
\* that peer, and inserts the joiner only when every send has returned and
\* before the joiner has its response.
C19_JoinStepOrder ==
    \A x \in Nodes :
        LET log == joinLog[x]
        IN  /\ \A p \in Nodes :
                  /\ log.sent[p] <= 1 /\ log.sched[p] <= log.sent[p]
                  /\ log.sent[p] = 1 => p \in log.snap
                  /\ (log.sched[p] = 1
                        /\ \E n \in Nodes : handler[n].active /\ handler[n].addr = x)
                       => handler[target[x]].waiting # p
            /\ \A n \in Nodes :
                  (handler[n].active /\ handler[n].addr = x)
                      => (log.snap = peers[n] /\ joinResp[x] = "none")
            /\ joinResp[x] = "ok"
                  => /\ x \in peers[target[x]]
                     /\ \A p \in Nodes :
                           /\ log.sent[p] = (IF p \in log.snap THEN 1 ELSE 0)
                           /\ log.sched[p] = log.sent[p]

\* a join was answered whose handler had two peers in its clone
C19_Witness ==
    \E x \in Nodes :
        /\ joinResp[x] = "ok"
        /\ Cardinality(joinLog[x].snap) >= 2
        /\ \A p \in joinLog[x].snap : joinLog[x].sent[p] = 1 /\ joinLog[x].sched[p] = 1
\* C21: no self-reference: when no node has sent "/add_me" to itself (each
\* node sends it at most once, in start_and_connect), no node's registry
\* holds the node's own address, whatever the order of join handling,
\* synchronous "/add_peer" notifications and delayed ones.
C21_NoSelfReference ==
    (\A x \in Nodes : target[x] # x)
        => \A n \in Nodes : n \notin peers[n]

\* every node listens, none joined itself, and a joiner got all the other
\* addresses through its target, synchronous and delayed notifications
C21_Witness ==
    /\ \A x \in Nodes : target[x] # x /\ nstate[x] = "listening"
    /\ delayed = {} /\ \A n \in Nodes : inbox[n] = <<>> /\ ~handler[n].active
    /\ \E x \in Nodes : x # Bootstrap /\ peers[x] = Nodes \ {x}
    /\ \E n \in Nodes : \E p \in Nodes : joinLog[n].sched[p] = 1
====
